---- MODULE Spec2Model ----
(***************************************************************************)
(* Model of 3dprinter_discord_bot.py: the polling adapters, the periodic   *)
(* update_status pass (tasks.loop), the state store (previous_states,      *)
(* print_start_times) and the completion / failure notifications.          *)
(***************************************************************************)
EXTENDS Integers, Sequences, FiniteSets, TLC

\* ------------------------------------------------------------------ bounds

\* Largest value of the wall clock (datetime.now(), in seconds).
MaxNow == 125
\* Seconds by which the wall clock advances in one Tick.
ClockStep == 125
\* Number of passes a replay feeds to its two runs.
MaxReplayPasses == 2
\* Number of asyncio task slots (concurrent update_status bodies the model
\* can represent).
MaxTasks == 2
MaxSeconds == 7325
SecondsBelowZero == 61

\* ------------------------------------------------------------------ Python values

\* Python's None, and a present optional value.
None == <<>>
Some(v) == <<v>>
Val(o) == o[1]

\* ------------------------------------------------------------------ configuration

\* printers.json: one PrusaLink printer followed by one Bambu printer.
PRINTERS ==
  << [name |-> "mk4", type |-> "prusa"],
     [name |-> "x1c", type |-> "bambu"] >>

NumPrinters == Len(PRINTERS)
PrinterIdx == 1..NumPrinters
PrinterNames == {PRINTERS[i].name : i \in PrinterIdx}
BambuNames == {PRINTERS[i].name : i \in {j \in PrinterIdx : PRINTERS[j].type = "bambu"}}

\* guild.members: the names of the members of the guild.
GuildMembers == {"al"}

\* ------------------------------------------------------------------ the environment's answers

\* printer.state values PrusaLink reports in /api/v1/status.
PrusaLinkStates ==
  {"IDLE", "READY", "BUSY", "PRINTING", "PAUSED", "FINISHED", "STOPPED",
   "ERROR", "ATTENTION"}

\* job.time_printing values PrusaLink reports (absent, zero, 1h 30m).
ReportedTimes == {None, Some(0), Some(5400)}

\* Answers of the /api/v1/job request: the request fails, or it carries the
\* file's display name.
JobResponses == {None, Some("a_@bob.gcode"), Some("part.3mf")}

\* The states in which PrusaLink has a job to report the time_printing of.
JobStates == {"PRINTING", "PAUSED"}

\* What one call of get_printer_status meets on the wire.  state = None is a
\* status document without printer.state.
PrusaResponses ==
  {[outcome |-> o, state |-> None, time_printing |-> None, job |-> None] :
      o \in {"connection_error", "timeout", "error"}}
  \cup
  {[outcome |-> "ok", state |-> s, time_printing |-> None, job |-> None] :
      s \in {None} \cup {Some(x) : x \in PrusaLinkStates \ JobStates}}
  \cup
  {[outcome |-> "ok", state |-> Some(x), time_printing |-> t, job |-> None] :
      x \in JobStates \ {"PRINTING"}, t \in ReportedTimes}
  \cup
  {[outcome |-> "ok", state |-> Some("PRINTING"), time_printing |-> t, job |-> j] :
      t \in ReportedTimes, j \in JobResponses}

\* gcode states of bambulabs_api (str(state).split(".")[-1]); None is a falsy
\* get_state() result.
BambuGcodeStates ==
  {"IDLE", "PREPARE", "RUNNING", "PAUSE", "FINISH", "FAILED", "UNKNOWN"}

\* subtask_name() or get_file_name() while a job runs: empty, or a file name.
BambuFileNames == {"", "b_@Al.gcode.3mf"}

\* What one call of get_bambu_status finds in the client's cache; outcome
\* "error" is any exception raised by the client's getters.
BambuResponses ==
  {[outcome |-> "error", state |-> None, file_name |-> ""]}
  \cup
  {[outcome |-> "ok", state |-> s, file_name |-> ""] :
      s \in {None} \cup {Some(x) : x \in BambuGcodeStates \ {"PREPARE", "RUNNING"}}}
  \cup
  {[outcome |-> "ok", state |-> Some(x), file_name |-> f] :
      x \in {"PREPARE", "RUNNING"}, f \in BambuFileNames}

\* ------------------------------------------------------------------ strings

LowerOf ==
  [c \in {"A", "B", "C", "D", "E", "F", "G", "H", "I", "J", "K", "L", "M", "N", "O",
          "P", "Q", "R", "S", "T", "U", "V", "W", "X", "Y", "Z"} |->
     CASE c = "A" -> "a" [] c = "B" -> "b" [] c = "C" -> "c" [] c = "D" -> "d"
       [] c = "E" -> "e" [] c = "F" -> "f" [] c = "G" -> "g" [] c = "H" -> "h"
       [] c = "I" -> "i" [] c = "J" -> "j" [] c = "K" -> "k" [] c = "L" -> "l"
       [] c = "M" -> "m" [] c = "N" -> "n" [] c = "O" -> "o" [] c = "P" -> "p"
       [] c = "Q" -> "q" [] c = "R" -> "r" [] c = "S" -> "s" [] c = "T" -> "t"
       [] c = "U" -> "u" [] c = "V" -> "v" [] c = "W" -> "w" [] c = "X" -> "x"
       [] c = "Y" -> "y" [] c = "Z" -> "z"]

\* str.lower()
RECURSIVE Lower(_)
Lower(s) ==
  IF Len(s) = 0 THEN ""
  ELSE LET c == SubSeq(s, 1, 1)
       IN  (IF c \in DOMAIN LowerOf THEN LowerOf[c] ELSE c) \o Lower(Tail(s))

\* str.endswith(suffix)
EndsWith(s, suffix) ==
  /\ Len(suffix) <= Len(s)
  /\ SubSeq(s, Len(s) - Len(suffix) + 1, Len(s)) = suffix

\* The start of the last occurrence of sub in s, 0 if there is none
\* (str.rfind, 1-based).
LastIndexOf(s, sub) ==
  LET hits == {i \in 1..(Len(s) - Len(sub) + 1) : SubSeq(s, i, i + Len(sub) - 1) = sub}
  IN  IF hits = {} THEN 0 ELSE CHOOSE i \in hits : \A j \in hits : j <= i

\* ------------------------------------------------------------------ polling

\* A call that returns a value, and a call that lets an exception out.
Return(v) == [raised |-> FALSE, value |-> v]
Raise == [raised |-> TRUE, value |-> None]

\* A status dictionary; a key the code leaves out reads as None (dict.get).
Status(state, raw, time_printing, job_data) ==
  [state |-> state, raw_bambu_state |-> raw, time_printing |-> time_printing,
   job_data |-> job_data]

\* Mutant: the catch-all "except Exception" is missing.
get_printer_status_NoCatchAll(resp) ==
  CASE resp.outcome = "connection_error" ->
         Return(Status("OFFLINE", None, None, None))
    [] resp.outcome = "timeout" ->
         Return(Status("OFFLINE", None, None, None))
    [] resp.outcome = "error" -> Raise
    [] OTHER ->
         LET printer_state == IF resp.state = None THEN "UNKNOWN" ELSE Val(resp.state)
         IN  Return(Status(printer_state, None, resp.time_printing,
                           IF printer_state = "PRINTING" THEN resp.job ELSE None))

\* get_printer_status: the PrusaLink adapter.  resp is what the two HTTP
\* requests meet.
get_printer_status(resp) ==
  CASE resp.outcome = "connection_error" ->
         Return(Status("OFFLINE", None, None, None))
    [] resp.outcome = "timeout" ->
         Return(Status("OFFLINE", None, None, None))
    [] resp.outcome = "error" ->
         Return(Status("UNKNOWN", None, None, None))
    [] OTHER ->
         LET printer_state == IF resp.state = None THEN "UNKNOWN" ELSE Val(resp.state)
         IN  Return(Status(printer_state, None, resp.time_printing,
                           IF printer_state = "PRINTING" THEN resp.job ELSE None))

\* Mutant: every token is handed on as the printer reports it.
state_map_AsReported ==
  [s \in {"IDLE", "RUNNING", "PREPARE", "PAUSE", "FINISH", "FAILED", "UNKNOWN"} |-> s]

\* state_map of get_bambu_status.
state_map ==
  [s \in {"IDLE", "RUNNING", "PREPARE", "PAUSE", "FINISH", "FAILED", "UNKNOWN"} |->
     CASE s = "IDLE" -> "IDLE"
       [] s = "RUNNING" -> "PRINTING"
       [] s = "PREPARE" -> "PRINTING"
       [] s = "PAUSE" -> "PAUSED"
       [] s = "FINISH" -> "IDLE"
       [] s = "FAILED" -> "ERROR"
       [] s = "UNKNOWN" -> "UNKNOWN"]

\* get_bambu_status: the Bambu adapter, reading the MQTT client's cache.
get_bambu_status(printer_name, connections, resp) ==
  IF printer_name \notin connections
  THEN Return(Status("OFFLINE", None, None, None))
  ELSE IF resp.outcome = "error"
  THEN Return(Status("UNKNOWN", None, None, None))
  ELSE LET state_str == IF resp.state # None THEN Val(resp.state) ELSE "UNKNOWN"
           normalized_state ==
             IF state_str \in DOMAIN state_map THEN state_map[state_str] ELSE state_str
           raw_state == state_str
       IN  Return(Status(normalized_state, Some(raw_state), None,
                         IF normalized_state = "PRINTING" /\ resp.file_name # ""
                         THEN Some(resp.file_name) ELSE None))

\* The answers a printer of this type can give.
Responses(printer) ==
  IF printer.type = "bambu" THEN BambuResponses ELSE PrusaResponses

\* What the polls of one pass can meet: an answer for every printer.
AllResponses ==
  {resp \in [PrinterIdx -> BambuResponses \cup PrusaResponses] :
     \A i \in PrinterIdx : resp[i] \in Responses(PRINTERS[i])}

\* poll_printer
poll_printer(printer, connections, resp) ==
  IF printer.type = "bambu"
  THEN get_bambu_status(printer.name, connections, resp)
  ELSE get_printer_status(resp)

\* ------------------------------------------------------------------ helpers

\* Mutant: the minutes are rounded to the nearest instead of cut.
format_time_Rounds(seconds) ==
  IF seconds = None THEN "unknown"
  ELSE IF Val(seconds) <= 0 THEN "0m"
  ELSE LET hours == Val(seconds) \div 3600
           remainder == Val(seconds) % 3600
           minutes == (remainder + 30) \div 60
       IN  IF hours > 0 THEN ToString(hours) \o "h " \o ToString(minutes) \o "m"
           ELSE ToString(minutes) \o "m"

\* format_time: seconds (None or a number) as a label.
format_time(seconds) ==
  IF seconds = None THEN "unknown"
  ELSE IF Val(seconds) <= 0 THEN "0m"
  ELSE LET hours == Val(seconds) \div 3600
           remainder == Val(seconds) % 3600
           minutes == remainder \div 60
       IN  IF hours > 0
           THEN ToString(hours) \o "h " \o ToString(minutes) \o "m"
           ELSE ToString(minutes) \o "m"

\* get_file_name: job_data holds the file's display name.
get_file_name(status) ==
  IF status.job_data # None
  THEN IF Val(status.job_data) # "" THEN Val(status.job_data) ELSE "Unknown file"
  ELSE "Unknown file"

\* The extensions parse_username_from_filename strips, in its order.
\* Mutant: the short extensions are tried before the long ones.
KnownExtensions_ShortFirst == <<".3mf", ".gco", ".gcode", ".bgcode", ".gcode.3mf">>

\* The extensions the loop of line 389 tries, in its order.
KnownExtensions == <<".gcode.3mf", ".bgcode", ".gcode", ".gco", ".3mf">>

\* parse_username_from_filename
parse_username_from_filename(file_name) ==
  LET at == LastIndexOf(file_name, "_@")
  IN  IF at = 0 THEN None
      ELSE LET after_at == SubSeq(file_name, at + 2, Len(file_name))
               matching == {k \in 1..Len(KnownExtensions) :
                              EndsWith(Lower(after_at), KnownExtensions[k])}
           IN  IF matching = {} THEN Some(after_at)
               ELSE LET k == CHOOSE m \in matching : \A n \in matching : m <= n
                    IN  Some(SubSeq(after_at, 1, Len(after_at) - Len(KnownExtensions[k])))

\* find_member_by_username: the member of that name, whatever the case.
find_member_by_username(members, username) ==
  IF username = None THEN None
  ELSE LET found == {m \in members : Lower(m) = Lower(Val(username))}
       IN  IF found = {} THEN None ELSE Some(CHOOSE m \in found : TRUE)

\* ------------------------------------------------------------------ state

VARIABLES
  previous_states,    \* printer name -> None or the record saved by the last pass
  print_start_times,  \* printer name -> None or the instant printing was first seen
  status_message_id,  \* None or the id of the status message
  bambu_connections,  \* names of the Bambu printers with a started MQTT client
  now,                \* the wall clock read by datetime.now()
  pc,                 \* task -> where that update_status task stands
  idx,                \* task -> index of the printer its notification loop is at
  responses,          \* task -> what its polls met (index -> response)
  printer_statuses,   \* task -> its printer_statuses list (index -> entry)
  outbox,             \* task -> None or the notification it is sending
  replay,             \* run -> a state store and the notifications sent from it
  replay_passes,      \* the number of passes replayed
  phase,              \* where the process stands: "imported", "running" or "exited"
  mqtt_stop_called,   \* names of the clients mqtt_stop() was called on
  fn_in,              \* None or the argument a helper is applied to
  fn_out,             \* None or what the helper returned
  notified            \* history: names of the printers a notification was sent for
                      \* and whose record has not been written since

replay_vars == <<replay, replay_passes>>

process_vars == <<phase, mqtt_stop_called>>

fn_vars == <<fn_in, fn_out>>

vars ==
  <<previous_states, print_start_times, status_message_id, bambu_connections, now,
    pc, idx, responses, printer_statuses, outbox, replay, replay_passes,
    phase, mqtt_stop_called, fn_in, fn_out, notified>>

Tasks == 1..MaxTasks

\* The outcomes of an awaited Discord call: it returns, it raises an exception
\* tasks.loop retries after (OSError, aiohttp.ClientError, ...), or it raises
\* any other exception (discord.Forbidden, discord.HTTPException, ...).
AwaitOutcomes == {"ok", "retryable_error", "error"}

\* The two runs of a replay.
Runs == {1, 2}

\* A run on a freshly initialized state store: both dictionaries empty, nothing
\* sent, the loop alive.
FreshRun ==
  [previous_states |-> [n \in PrinterNames |-> None],
   print_start_times |-> [n \in PrinterNames |-> None],
   sent |-> <<>>,
   alive |-> TRUE]

\* The module has been imported: the configuration is loaded, the MQTT clients
\* that could be started are started, and nothing has been polled.
Imported ==
  /\ previous_states = [n \in PrinterNames |-> None]
  /\ print_start_times = [n \in PrinterNames |-> None]
  /\ status_message_id = None
  /\ bambu_connections \in SUBSET BambuNames
  /\ now = 0
  /\ pc = [t \in Tasks |-> "none"]
  /\ idx = [t \in Tasks |-> 0]
  /\ responses = [t \in Tasks |-> <<>>]
  /\ printer_statuses = [t \in Tasks |-> <<>>]
  /\ outbox = [t \in Tasks |-> None]
  /\ replay = [r \in Runs |-> FreshRun]
  /\ replay_passes = 0
  /\ phase = "imported"
  /\ mqtt_stop_called = {}
  /\ notified = {}

Init ==
  /\ Imported
  /\ fn_in = None
  /\ fn_out = None

\* ------------------------------------------------------------------ process

\* The reasons the __main__ block exits before bot.run is reached.
MainExits == {"no_token", "no_status_channel_id", "no_notification_channel_id"}

\* bot.run closes the event loop on its way out: every task is cancelled and
\* its locals are dropped.  The module's dictionaries are still there when
\* the finally clause runs.
TasksCancelled ==
  /\ pc' = [t \in Tasks |-> "none"]
  /\ idx' = [t \in Tasks |-> 0]
  /\ responses' = [t \in Tasks |-> <<>>]
  /\ printer_statuses' = [t \in Tasks |-> <<>>]
  /\ outbox' = [t \in Tasks |-> None]

\* disconnect_bambu_printers: the clients mqtt_stop() is called on, when it
\* raises on those of raising.  The exception is caught inside the loop, so
\* the loop goes on to the next client.
disconnect_bambu_printers(connections, raising) ==
  {name \in connections : TRUE}

\* __main__ finds the token or a channel id missing and exits with status 1,
\* after the import has started the MQTT clients and outside the try/finally.
MainExit ==
  /\ phase = "imported"
  /\ \E reason \in MainExits : phase' = "exited"
  /\ UNCHANGED <<previous_states, print_start_times, status_message_id,
                 bambu_connections, now, pc, idx, responses, printer_statuses, outbox>>
  /\ UNCHANGED <<replay_vars, mqtt_stop_called, fn_vars>>
  /\ UNCHANGED notified

\* __main__ passes its three tests and enters bot.run.
BotRun ==
  /\ phase = "imported"
  /\ phase' = "running"
  /\ UNCHANGED <<previous_states, print_start_times, status_message_id,
                 bambu_connections, now, pc, idx, responses, printer_statuses, outbox>>
  /\ UNCHANGED <<replay_vars, mqtt_stop_called, fn_vars>>
  /\ UNCHANGED notified

\* bot.run returns or raises: the finally clause disconnects the printers and
\* the process ends.
BotRunEnds ==
  /\ phase = "running"
  /\ phase' = "exited"
  /\ \E raising \in SUBSET bambu_connections :
       mqtt_stop_called' = disconnect_bambu_printers(bambu_connections, raising)
  /\ TasksCancelled
  /\ UNCHANGED <<previous_states, print_start_times, status_message_id,
                 bambu_connections, now>>
  /\ UNCHANGED <<replay_vars, fn_vars>>
  /\ UNCHANGED notified

\* ------------------------------------------------------------------ tasks.loop

\* Mutant: the pass is launched without asking whether one is running.
LoopIsRunning_NotAsked == FALSE

\* Loop.start()'s test: the loop's task exists and is not done.
LoopIsRunning == \E t \in Tasks : pc[t] # "none"

\* The task slots in which no task lives.
FreeSlots == {t \in Tasks : pc[t] = "none"}

\* on_ready: update_status.start().  Started again while the loop's task runs,
\* start() raises RuntimeError and launches nothing.
OnReady ==
  /\ phase = "running"
  /\ IF LoopIsRunning \/ FreeSlots = {}
     THEN UNCHANGED pc
     ELSE LET t == CHOOSE u \in FreeSlots : \A v \in FreeSlots : u <= v
          IN  pc' = [pc EXCEPT ![t] = "sleep"]
  /\ UNCHANGED <<previous_states, print_start_times, status_message_id,
                 bambu_connections, now, idx, responses, printer_statuses, outbox>>
  /\ UNCHANGED <<replay_vars, process_vars, fn_vars>>
  /\ UNCHANGED notified

\* The locals of task t are dropped: its body returned or raised.
DropLocals(t) ==
  /\ idx' = [idx EXCEPT ![t] = 0]
  /\ responses' = [responses EXCEPT ![t] = <<>>]
  /\ printer_statuses' = [printer_statuses EXCEPT ![t] = <<>>]
  /\ outbox' = [outbox EXCEPT ![t] = None]

\* An exception leaves the body of update_status: tasks.loop runs the body
\* again after a back-off if the exception is one it retries, and ends the
\* task otherwise.
BodyRaised(t, outcome) ==
  /\ pc' = [pc EXCEPT ![t] = IF outcome = "retryable_error" THEN "sleep" ELSE "none"]
  /\ DropLocals(t)

\* The body of update_status returned: the task sleeps until the next pass.
BodyReturned(t) ==
  /\ pc' = [pc EXCEPT ![t] = "sleep"]
  /\ DropLocals(t)

\* ------------------------------------------------------------------ update_status

\* The start of a pass: the two channels are looked up, and a missing one ends
\* the pass; the first pass purges the status channel.
BeginPass(t) ==
  /\ pc[t] = "sleep"
  /\ \E channels \in {"found", "no_status_channel", "no_notification_channel"} :
       IF channels # "found"
       THEN UNCHANGED pc
       ELSE pc' = [pc EXCEPT ![t] = IF status_message_id = None THEN "purge" ELSE "poll"]
  /\ UNCHANGED <<previous_states, print_start_times, status_message_id,
                 bambu_connections, now, idx, responses, printer_statuses, outbox>>
  /\ UNCHANGED <<replay_vars, process_vars, fn_vars>>
  /\ UNCHANGED notified

\* await status_channel.purge() completes.
PurgeDone(t) ==
  /\ pc[t] = "purge"
  /\ \E outcome \in AwaitOutcomes :
       IF outcome = "ok"
       THEN /\ pc' = [pc EXCEPT ![t] = "poll"]
            /\ UNCHANGED <<idx, responses, printer_statuses, outbox>>
       ELSE BodyRaised(t, outcome)
  /\ UNCHANGED <<previous_states, print_start_times, status_message_id,
                 bambu_connections, now>>
  /\ UNCHANGED <<replay_vars, process_vars, fn_vars>>
  /\ UNCHANGED notified

\* One entry of printer_statuses: (printer, status, file_name, username).
StatusEntry(status) ==
  LET file_name == IF status.state = "PRINTING" THEN Some(get_file_name(status)) ELSE None
      username == IF file_name # None /\ Val(file_name) # ""
                  THEN parse_username_from_filename(Val(file_name)) ELSE None
  IN  [status |-> status, file_name |-> file_name, username |-> username]

\* The polls of one pass, printer by printer.
PollAll(resp) ==
  [i \in PrinterIdx |-> poll_printer(PRINTERS[i], bambu_connections, resp[i])]

\* "Poll all printers and collect statuses": every printer is polled in turn.
PollPrinters(t) ==
  /\ pc[t] = "poll"
  /\ \E resp \in AllResponses :
       /\ LET polled == PollAll(resp)
          IN  IF \E i \in PrinterIdx : polled[i].raised
              THEN BodyRaised(t, "error")
              ELSE /\ pc' = [pc EXCEPT ![t] = "detect"]
                   /\ idx' = [idx EXCEPT ![t] = 1]
                   /\ responses' = [responses EXCEPT ![t] = resp]
                   /\ printer_statuses' =
                        [printer_statuses EXCEPT
                           ![t] = [i \in PrinterIdx |-> StatusEntry(polled[i].value)]]
                   /\ UNCHANGED outbox
  /\ UNCHANGED <<previous_states, print_start_times, status_message_id,
                 bambu_connections, now>>
  /\ UNCHANGED <<replay_vars, process_vars, fn_vars>>
  /\ UNCHANGED notified

\* ------------------------------------------------------------------ the notification loop

\* Python's truth value of prev.get("time_printing"): None and 0 are false.
Truthy(reported_time) == reported_time # None /\ Val(reported_time) # 0

\* Mutant: the UNKNOWN test is left out.
SkipsUnknown_Never(status) == FALSE

\* "Skip UNKNOWN states": the test that makes the loop continue.
SkipsUnknown(status) == status.state = "UNKNOWN"

\* Mutant: no start is ever recorded.
EntersPrinting_Never(status, prev) == FALSE

\* "Record start time when a printer transitions into PRINTING".
EntersPrinting(status, prev) ==
  status.state = "PRINTING" /\ (prev = None \/ Val(prev).state # "PRINTING")

\* Mutant: any stored record counts, whatever its state.
WasPrinting_AnyRecord(prev) == prev # None

\* "Printer was printing last poll".
WasPrinting(prev) == prev # None /\ Val(prev).state = "PRINTING"

\* bambu_finished
bambu_finished(status) == status.raw_bambu_state = Some("FINISH")

\* Mutant: READY is not taken as a completion.
IsCompletion_NoReady(status) ==
  status.state \in {"IDLE", "FINISHED"} \/ bambu_finished(status)

\* Mutant: any raw Bambu state is taken as FINISH (a truth test instead of the
\* comparison).
IsCompletion_RawTruthy(status) ==
  status.state \in {"IDLE", "READY", "FINISHED"} \/ status.raw_bambu_state # None

\* The test of the "Print completed!" branch.
IsCompletion(status) ==
  status.state \in {"IDLE", "READY", "FINISHED"} \/ bambu_finished(status)

\* Mutant: STOPPED is not taken as a failure.
IsFailure_NoStopped(status) == status.state = "ERROR"

\* The test of the "Print failed!" branch, tried after the completion test.
IsFailure(status) == status.state \in {"ERROR", "STOPPED"}

\* Mutant: the elapsed time is taken the wrong way round.
ResolveDuration_Reversed(reported_time, start_time, at) ==
  IF Truthy(reported_time)
  THEN Some(format_time(Some(Val(reported_time))))
  ELSE IF start_time # None
  THEN Some(format_time(Some(Val(start_time) - at)))
  ELSE None

\* Mutant: an unknown duration is reported as zero.
ResolveDuration_ZeroWhenUnknown(reported_time, start_time, at) ==
  IF Truthy(reported_time)
  THEN Some(format_time(Some(Val(reported_time))))
  ELSE IF start_time # None
  THEN Some(format_time(Some(at - Val(start_time))))
  ELSE Some(format_time(Some(0)))

\* "Calculate duration": duration_str, None when it is omitted.
ResolveDuration(reported_time, start_time, at) ==
  IF Truthy(reported_time)
  THEN Some(format_time(Some(Val(reported_time))))
  ELSE IF start_time # None
  THEN Some(format_time(Some(at - Val(start_time))))
  ELSE None

\* mention
Mention(prev) ==
  LET member == find_member_by_username(GuildMembers, prev.username)
  IN  IF member # None THEN "<@" \o Val(member) \o ">"
      ELSE IF prev.username # None /\ Val(prev.username) # ""
      THEN "@" \o Val(prev.username)
      ELSE "Unknown user"

\* The text handed to notification_channel.send, field by field.
Notification(kind, printer_name, prev, duration_str) ==
  [kind |-> kind,
   printer_name |-> printer_name,
   prev_file |-> prev.file_name,
   mention |-> Mention(prev),
   duration_line |-> IF duration_str # None /\ Val(duration_str) # ""
                     THEN "Print time: " \o Val(duration_str) ELSE ""]

\* Mutant: the saved record leaves time_printing out.
SavedState_NoTime(entry) ==
  Some([state |-> entry.status.state,
        file_name |-> entry.file_name,
        username |-> entry.username,
        time_printing |-> None])

\* "Save current state for next poll comparison".
SavedState(entry) ==
  Some([state |-> entry.status.state,
        file_name |-> entry.file_name,
        username |-> entry.username,
        time_printing |-> entry.status.time_printing])

\* Mutant: the notification names the file and the user of the reading
\* instead of those of the stored record.
Turn_CurrentReading(entry, printer_name, prev, start_time, at) ==
  LET status == entry.status
      started == IF EntersPrinting(status, prev) THEN Some(at) ELSE start_time
      reading == [file_name |-> entry.file_name, username |-> entry.username]
  IN  IF SkipsUnknown(status)
      THEN [start_time |-> start_time, notification |-> None, saves |-> FALSE]
      ELSE IF WasPrinting(prev)
      THEN LET duration_str == ResolveDuration(Val(prev).time_printing, started, at)
               kind == IF IsCompletion(status) THEN Some("Print Complete")
                       ELSE IF IsFailure(status) THEN Some("Print Failed") ELSE None
           IN  [start_time |-> None,
                notification |-> IF kind = None THEN None
                                 ELSE Some(Notification(Val(kind), printer_name, reading,
                                                        duration_str)),
                saves |-> TRUE]
      ELSE [start_time |-> started, notification |-> None, saves |-> TRUE]

\* What one turn of the notification loop does with a printer's entry, its
\* stored record prev and its recorded start: the start it leaves, the
\* notification it sends (None: none) and whether it reaches the save.
Turn(entry, printer_name, prev, start_time, at) ==
  LET status == entry.status
      started == IF EntersPrinting(status, prev) THEN Some(at) ELSE start_time
  IN  IF SkipsUnknown(status)
      THEN [start_time |-> start_time, notification |-> None, saves |-> FALSE]
      ELSE IF WasPrinting(prev)
      THEN LET duration_str == ResolveDuration(Val(prev).time_printing, started, at)
               kind == IF IsCompletion(status) THEN Some("Print Complete")
                       ELSE IF IsFailure(status) THEN Some("Print Failed")
                       ELSE None
           IN  [start_time |-> None,
                notification |->
                  IF kind = None THEN None
                  ELSE Some(Notification(Val(kind), printer_name, Val(prev), duration_str)),
                saves |-> TRUE]
      ELSE [start_time |-> started, notification |-> None, saves |-> TRUE]

\* One turn of the notification loop of task t, up to its await or its end.
DetectPrinter(t) ==
  /\ pc[t] = "detect"
  /\ idx[t] \in PrinterIdx
  /\ LET entry == printer_statuses[t][idx[t]]
         printer_name == PRINTERS[idx[t]].name
         turn == Turn(entry, printer_name, previous_states[printer_name],
                      print_start_times[printer_name], now)
     IN  /\ print_start_times' = [print_start_times EXCEPT ![printer_name] = turn.start_time]
         /\ IF turn.notification # None
            THEN /\ outbox' = [outbox EXCEPT ![t] = turn.notification]
                 /\ pc' = [pc EXCEPT ![t] = "send"]
                 /\ notified' = notified \cup {printer_name}
                 /\ UNCHANGED <<idx, previous_states>>
            ELSE /\ idx' = [idx EXCEPT ![t] = idx[t] + 1]
                 /\ previous_states' =
                      IF turn.saves
                      THEN [previous_states EXCEPT ![printer_name] = SavedState(entry)]
                      ELSE previous_states
                 /\ notified' = IF turn.saves THEN notified \ {printer_name} ELSE notified
                 /\ UNCHANGED <<pc, outbox>>
  /\ UNCHANGED <<status_message_id, bambu_connections, now, responses, printer_statuses>>
  /\ UNCHANGED <<replay_vars, process_vars, fn_vars>>

\* await notification_channel.send(...) completes: the loop saves the state
\* and goes on, or the exception leaves update_status.
SendDone(t) ==
  /\ pc[t] = "send"
  /\ \E outcome \in AwaitOutcomes :
       IF outcome = "ok"
       THEN /\ previous_states' =
                 [previous_states EXCEPT
                    ![PRINTERS[idx[t]].name] = SavedState(printer_statuses[t][idx[t]])]
            /\ idx' = [idx EXCEPT ![t] = idx[t] + 1]
            /\ pc' = [pc EXCEPT ![t] = "detect"]
            /\ outbox' = [outbox EXCEPT ![t] = None]
            /\ notified' = notified \ {PRINTERS[idx[t]].name}
            /\ UNCHANGED <<responses, printer_statuses>>
       ELSE BodyRaised(t, outcome) /\ UNCHANGED <<previous_states, notified>>
  /\ UNCHANGED <<print_start_times, status_message_id, bambu_connections, now>>
  /\ UNCHANGED <<replay_vars, process_vars, fn_vars>>

\* ------------------------------------------------------------------ the status embed

\* The loop is over: the embed is built and the status message is edited, or
\* sent when there is none yet.
PublishEmbed(t) ==
  /\ pc[t] = "detect"
  /\ idx[t] = NumPrinters + 1
  /\ pc' = [pc EXCEPT ![t] = IF status_message_id # None THEN "edit" ELSE "post"]
  /\ UNCHANGED <<previous_states, print_start_times, status_message_id,
                 bambu_connections, now, idx, responses, printer_statuses, outbox>>
  /\ UNCHANGED <<replay_vars, process_vars, fn_vars>>
  /\ UNCHANGED notified

\* fetch_message and message.edit complete; discord.NotFound sends a new
\* message instead.
EditDone(t) ==
  /\ pc[t] = "edit"
  /\ \E outcome \in AwaitOutcomes \cup {"not_found"} :
       CASE outcome = "ok" -> BodyReturned(t)
         [] outcome = "not_found" ->
              /\ pc' = [pc EXCEPT ![t] = "post"]
              /\ UNCHANGED <<idx, responses, printer_statuses, outbox>>
         [] OTHER -> BodyRaised(t, outcome)
  /\ UNCHANGED <<previous_states, print_start_times, status_message_id,
                 bambu_connections, now>>
  /\ UNCHANGED <<replay_vars, process_vars, fn_vars>>
  /\ UNCHANGED notified

\* status_channel.send(embed=embed) completes: its id is kept.
PostDone(t) ==
  /\ pc[t] = "post"
  /\ \E outcome \in AwaitOutcomes :
       IF outcome = "ok"
       THEN /\ status_message_id' = Some(1)
            /\ BodyReturned(t)
       ELSE /\ BodyRaised(t, outcome)
            /\ UNCHANGED status_message_id
  /\ UNCHANGED <<previous_states, print_start_times, bambu_connections, now>>
  /\ UNCHANGED <<replay_vars, process_vars, fn_vars>>
  /\ UNCHANGED notified

\* ------------------------------------------------------------------ the clock

\* Time passes, while the event loop is idle or a task waits for Discord or
\* for the printers' answers (not between two turns of the notification loop).
Tick ==
  /\ \A t \in Tasks : pc[t] # "detect"
  /\ now + ClockStep <= MaxNow
  /\ now' = now + ClockStep
  /\ UNCHANGED <<previous_states, print_start_times, status_message_id,
                 bambu_connections, pc, idx, responses, printer_statuses, outbox>>
  /\ UNCHANGED <<replay_vars, process_vars, fn_vars>>
  /\ UNCHANGED notified

\* ------------------------------------------------------------------ specification

Next ==
  \/ MainExit
  \/ BotRun
  \/ BotRunEnds
  \/ OnReady
  \/ Tick
  \/ \E t \in Tasks :
       \/ BeginPass(t)
       \/ PurgeDone(t)
       \/ PollPrinters(t)
       \/ DetectPrinter(t)
       \/ SendDone(t)
       \/ PublishEmbed(t)
       \/ EditDone(t)
       \/ PostDone(t)

Spec == Init /\ [][Next]_vars

\* ------------------------------------------------------------------ replay

\* The notification loop of one pass, from printer i on, run on the state
\* store of run: the runs it can leave, one for each way the sends can end.
\* A send that raises ends the pass, and ends the loop for good unless
\* tasks.loop retries the exception.
RECURSIVE RunLoop(_, _, _, _)
RunLoop(i, entries, run, at) ==
  IF i > NumPrinters THEN {run}
  ELSE LET printer_name == PRINTERS[i].name
           turn == Turn(entries[i], printer_name, run.previous_states[printer_name],
                        run.print_start_times[printer_name], at)
           popped == [run.print_start_times EXCEPT ![printer_name] = turn.start_time]
           saved == [run.previous_states EXCEPT ![printer_name] = SavedState(entries[i])]
       IN  IF turn.notification # None
           THEN LET sent == Append(run.sent, Val(turn.notification))
                IN  RunLoop(i + 1, entries,
                            [previous_states |-> saved, print_start_times |-> popped,
                             sent |-> sent, alive |-> TRUE],
                            at)
                    \cup
                    {[previous_states |-> run.previous_states,
                      print_start_times |-> popped,
                      sent |-> sent,
                      alive |-> outcome = "retryable_error"] :
                       outcome \in AwaitOutcomes \ {"ok"}}
           ELSE RunLoop(i + 1, entries,
                        [previous_states |-> IF turn.saves THEN saved ELSE run.previous_states,
                         print_start_times |-> popped,
                         sent |-> run.sent, alive |-> TRUE],
                        at)

\* What one pass on these readings can make of run; a run whose loop has
\* ended has no more passes.
PassOn(run, polled, at) ==
  IF run.alive /\ \A i \in PrinterIdx : ~polled[i].raised
  THEN RunLoop(1, [i \in PrinterIdx |-> StatusEntry(polled[i].value)], run, at)
  ELSE {run}

\* One pass of update_status on each of the two runs, both fed the same
\* readings at the same instant; the notification sink answers each run on
\* its own.
ReplayPass ==
  /\ replay_passes < MaxReplayPasses
  /\ \E resp \in AllResponses :
       LET polled == PollAll(resp)
       IN  \E run1 \in PassOn(replay[1], polled, now) :
           \E run2 \in PassOn(replay[2], polled, now) :
             replay' = [r \in Runs |-> IF r = 1 THEN run1 ELSE run2]
  /\ replay_passes' = replay_passes + 1
  /\ UNCHANGED <<previous_states, print_start_times, status_message_id,
                 bambu_connections, now, pc, idx, responses, printer_statuses, outbox>>
  /\ UNCHANGED <<process_vars, fn_vars>>
  /\ UNCHANGED notified

ReplayNext == Tick \/ ReplayPass

ReplaySpec == Init /\ [][ReplayNext]_vars

\* ------------------------------------------------------------------ deleted readings

\* The notification loop of one pass run on the readings that are left when
\* every UNKNOWN reading is deleted: a printer whose reading is deleted has no
\* turn in the pass, and every other printer has the turn of the loop.
RECURSIVE RunLoopKnown(_, _, _, _)
RunLoopKnown(i, entries, run, at) ==
  IF i > NumPrinters THEN {run}
  ELSE IF entries[i].status.state = "UNKNOWN" THEN RunLoopKnown(i + 1, entries, run, at)
  ELSE LET printer_name == PRINTERS[i].name
           turn == Turn(entries[i], printer_name, run.previous_states[printer_name],
                        run.print_start_times[printer_name], at)
           popped == [run.print_start_times EXCEPT ![printer_name] = turn.start_time]
           saved == [run.previous_states EXCEPT ![printer_name] = SavedState(entries[i])]
       IN  IF turn.notification # None
           THEN LET sent == Append(run.sent, Val(turn.notification))
                IN  RunLoopKnown(i + 1, entries,
                                 [previous_states |-> saved, print_start_times |-> popped,
                                  sent |-> sent, alive |-> TRUE],
                                 at)
                    \cup
                    {[previous_states |-> run.previous_states,
                      print_start_times |-> popped,
                      sent |-> sent,
                      alive |-> outcome = "retryable_error"] :
                       outcome \in AwaitOutcomes \ {"ok"}}
           ELSE RunLoopKnown(i + 1, entries,
                             [previous_states |-> IF turn.saves THEN saved
                                                  ELSE run.previous_states,
                              print_start_times |-> popped,
                              sent |-> run.sent, alive |-> TRUE],
                             at)

\* What one pass on these readings less the UNKNOWN ones can make of run.
PassOnKnown(run, polled, at) ==
  IF run.alive /\ \A i \in PrinterIdx : ~polled[i].raised
  THEN RunLoopKnown(1, [i \in PrinterIdx |-> StatusEntry(polled[i].value)], run, at)
  ELSE {run}

\* One pass of update_status on each of the two runs: run 1 is fed the
\* readings, run 2 the same readings with the UNKNOWN ones deleted; the
\* notification sink answers each run on its own.
DeletionPass ==
  /\ replay_passes < MaxReplayPasses
  /\ \E resp \in AllResponses :
       LET polled == PollAll(resp)
       IN  \E run1 \in PassOn(replay[1], polled, now) :
           \E run2 \in PassOnKnown(replay[2], polled, now) :
             replay' = [r \in Runs |-> IF r = 1 THEN run1 ELSE run2]
  /\ replay_passes' = replay_passes + 1
  /\ UNCHANGED <<previous_states, print_start_times, status_message_id,
                 bambu_connections, now, pc, idx, responses, printer_statuses, outbox>>
  /\ UNCHANGED <<process_vars, fn_vars>>
  /\ UNCHANGED notified

DeletionNext == Tick \/ DeletionPass

DeletionSpec == Init /\ [][DeletionNext]_vars

\* ------------------------------------------------------------------ helpers

\* File names put together from a stem, the marker or not, a user name and an
\* ending.
FileStems == {"", "x", "part", "bracket_v3", "a_@b"}
FileMarkers == {"", "_@"}
FileUsers == {"", "alice", "Al", "bob.smith"}
FileEndings ==
  {"", ".gcode.3mf", ".bgcode", ".gcode", ".gco", ".3mf", ".GCode", ".3MF", ".txt",
   ".3mf.gcode"}

FileNames ==
  {stem \o marker \o user \o ending :
     stem \in FileStems, marker \in FileMarkers, user \in FileUsers,
     ending \in FileEndings}

\* The arguments format_time is given: no value, or a number of seconds.
SecondsArgs == {None} \cup {Some(n) : n \in (0 - SecondsBelowZero)..MaxSeconds}

\* A call of one helper with one argument.
Call(fn, arg) == Some([fn |-> fn, arg |-> arg])

Calls ==
  {Call("parse_username_from_filename", file_name) : file_name \in FileNames}
  \cup {Call("format_time", seconds) : seconds \in SecondsArgs}

\* A helper is about to be called on an argument, in a process that has just
\* been imported.
HelperInit ==
  /\ Imported
  /\ fn_in \in Calls
  /\ fn_out = None

\* The call is pending on helper fn.
Pending(fn) == fn_in # None /\ Val(fn_in).fn = fn /\ fn_out = None

\* The call of helper fn has returned.
Returned(fn) == fn_in # None /\ Val(fn_in).fn = fn /\ fn_out # None

CallParseUsername ==
  /\ Pending("parse_username_from_filename")
  /\ fn_out' = Some(parse_username_from_filename(Val(fn_in).arg))
  /\ UNCHANGED <<previous_states, print_start_times, status_message_id,
                 bambu_connections, now, pc, idx, responses, printer_statuses, outbox>>
  /\ UNCHANGED <<replay_vars, process_vars, fn_in>>
  /\ UNCHANGED notified

CallFormatTime ==
  /\ Pending("format_time")
  /\ fn_out' = Some(format_time(Val(fn_in).arg))
  /\ UNCHANGED <<previous_states, print_start_times, status_message_id,
                 bambu_connections, now, pc, idx, responses, printer_statuses, outbox>>
  /\ UNCHANGED <<replay_vars, process_vars, fn_in>>
  /\ UNCHANGED notified

HelperNext == CallParseUsername \/ CallFormatTime

HelperSpec == HelperInit /\ [][HelperNext]_vars

\* ------------------------------------------------------------------ properties

\* The positions of a task that has polled and not yet left its pass.
Polled == {"detect", "send", "edit", "post"}

\* This step is a turn of task t's notification loop.
DetectTurn(t) ==
  /\ phase' = "running"
  /\ pc[t] = "detect"
  /\ idx[t] \in PrinterIdx
  /\ (idx'[t] # idx[t] \/ pc'[t] # pc[t])

\* The printer, the reading and the stored record task t's loop is at.
CurName(t) == PRINTERS[idx[t]].name
CurStatus(t) == printer_statuses[t][idx[t]].status
CurPrev(t) == previous_states[CurName(t)]

\* This step of task t sends a notification of that kind.
Emits(t, kind) == pc'[t] = "send" /\ outbox'[t] # None /\ Val(outbox'[t]).kind = kind

\* C1: in a pass in which a printer's reading is UNKNOWN, no step changes that
\* printer's previous_states entry or its print_start_times entry, and no
\* notification is sent for it.
C1_UnknownLeavesStore ==
  [][\A t \in Tasks : \A i \in PrinterIdx :
       (pc[t] \in Polled /\ printer_statuses[t][i].status.state = "UNKNOWN")
       => LET n == PRINTERS[i].name
          IN  /\ previous_states'[n] = previous_states[n]
              /\ print_start_times'[n] = print_start_times[n]
              /\ (outbox'[t] # None => Val(outbox'[t]).printer_name # n)]_vars

\* C1 witness: the loop has gone past an UNKNOWN reading of a printer whose
\* record says PRINTING and whose start time is recorded.
C1_Witness ==
  \E t \in Tasks : \E i \in PrinterIdx :
    /\ pc[t] = "detect" /\ idx[t] > i
    /\ printer_statuses[t][i].status.state = "UNKNOWN"
    /\ previous_states[PRINTERS[i].name] # None
    /\ Val(previous_states[PRINTERS[i].name]).state = "PRINTING"
    /\ print_start_times[PRINTERS[i].name] # None

\* C2: whenever a notification is being sent for a printer whose previous
\* record carries a time_printing (any value, 0 included), the notification's
\* duration is that value.
C2_ReportedTimeIsDuration ==
  \A t \in Tasks :
    (pc[t] = "send" /\ Val(CurPrev(t)).time_printing # None)
    => Val(outbox[t]).duration_line
         = "Print time: " \o format_time(Val(CurPrev(t)).time_printing)

\* C3: a turn that sends a notification for a printer whose previous record
\* has no time_printing and whose start time is recorded gives as duration
\* the time from that start to now.
C3_SessionElapsed ==
  [][\A t \in Tasks :
       (/\ DetectTurn(t)
        /\ pc'[t] = "send"
        /\ Val(CurPrev(t)).time_printing = None
        /\ print_start_times[CurName(t)] # None)
       => Val(outbox'[t]).duration_line
            = "Print time: "
                \o format_time(Some(now - Val(print_start_times[CurName(t)])))]_vars

\* C3 witness: a notification with no reported time and a start 125 seconds
\* back reads "2m".
C3_Witness ==
  \E t \in Tasks :
    /\ pc[t] = "send"
    /\ Val(CurPrev(t)).time_printing = None
    /\ now = 125
    /\ Val(outbox[t]).duration_line = "Print time: 2m"

\* C4: a turn for a printer that was PRINTING, whose reading is a completion
\* or a failure, with neither a time_printing in the previous record nor a
\* recorded start, still sends the notification, and without a duration.
C4_NoDurationWhenUnknown ==
  [][\A t \in Tasks :
       (/\ DetectTurn(t)
        /\ WasPrinting(CurPrev(t))
        /\ CurStatus(t).state # "UNKNOWN"
        /\ (IsCompletion(CurStatus(t)) \/ IsFailure(CurStatus(t)))
        /\ Val(CurPrev(t)).time_printing = None
        /\ print_start_times[CurName(t)] = None)
       => /\ pc'[t] = "send"
          /\ outbox'[t] # None
          /\ Val(outbox'[t]).duration_line = ""]_vars

\* C4 witness: a notification without a duration for a record without a
\* time_printing.
C4_Witness ==
  \E t \in Tasks :
    /\ pc[t] = "send"
    /\ Val(CurPrev(t)).time_printing = None
    /\ Val(outbox[t]).duration_line = ""

\* C5 as stated: for a printer that was PRINTING and a reading that is not
\* UNKNOWN, "Print Complete" is sent exactly when the state is IDLE or
\* FINISHED or the raw Bambu state is FINISH.
C5_CompletedIff_Stated ==
  [][\A t \in Tasks :
       (DetectTurn(t) /\ WasPrinting(CurPrev(t)) /\ CurStatus(t).state # "UNKNOWN")
       => (Emits(t, "Print Complete")
           <=> (\/ CurStatus(t).state \in {"IDLE", "FINISHED"}
                \/ CurStatus(t).raw_bambu_state = Some("FINISH")))]_vars

\* C5 amended: for a printer that was PRINTING and a reading that is not
\* UNKNOWN, "Print Complete" is sent exactly when the state is IDLE, READY or
\* FINISHED or the raw Bambu state is FINISH.
C5_CompletedIff ==
  [][\A t \in Tasks :
       (DetectTurn(t) /\ WasPrinting(CurPrev(t)) /\ CurStatus(t).state # "UNKNOWN")
       => (Emits(t, "Print Complete")
           <=> (\/ CurStatus(t).state \in {"IDLE", "READY", "FINISHED"}
                \/ CurStatus(t).raw_bambu_state = Some("FINISH")))]_vars

\* C5 witness: "Print Complete" is being sent for a Bambu reading IDLE with
\* raw state FINISH.
C5_Witness ==
  \E t \in Tasks :
    /\ pc[t] = "send"
    /\ Val(outbox[t]).kind = "Print Complete"
    /\ PRINTERS[idx[t]].type = "bambu"
    /\ CurStatus(t).state = "IDLE"
    /\ CurStatus(t).raw_bambu_state = Some("FINISH")

\* C6: a turn whose reading is PRINTING sends no notification, whatever the
\* store holds; so the second of two PRINTING passes sends none.
C6_StillPrintingNoEvent ==
  [][\A t \in Tasks :
       (DetectTurn(t) /\ CurStatus(t).state = "PRINTING")
       => (pc'[t] = "detect" /\ outbox'[t] = None)]_vars

\* C6 witness: the loop has gone past a PRINTING reading of a printer whose
\* record, saved by the pass before, was PRINTING with the same file name.
C6_Witness ==
  \E t \in Tasks : \E i \in PrinterIdx :
    /\ pc[t] = "detect" /\ idx[t] = i + 1
    /\ printer_statuses[t][i].status.state = "PRINTING"
    /\ status_message_id # None
    /\ print_start_times[PRINTERS[i].name] = None
    /\ previous_states[PRINTERS[i].name] = SavedState(printer_statuses[t][i])

\* C7: two runs from freshly initialized stores, fed the same readings at the
\* same instants, have sent the same notifications and hold the same store.
C7_ReplayAgrees ==
  /\ replay[1].sent = replay[2].sent
  /\ replay[1].previous_states = replay[2].previous_states
  /\ replay[1].print_start_times = replay[2].print_start_times

\* C8: when the send of a notification ends in a running process, however it
\* ends, the record of its printer is saved and the loop goes on with the
\* next printer.
C8_SendFailureNotFatal ==
  [][\A t \in Tasks :
       (phase' = "running" /\ pc[t] = "send" /\ pc'[t] # "send")
       => /\ pc'[t] = "detect"
          /\ idx'[t] = idx[t] + 1
          /\ previous_states'[CurName(t)] = SavedState(printer_statuses[t][idx[t]])]_vars

\* What the polls of task t met, and what they made of it.
PolledRight(t) ==
  /\ DOMAIN printer_statuses[t] = PrinterIdx
  /\ \A i \in PrinterIdx :
       LET resp == responses[t][i]
           status == printer_statuses[t][i].status
       IN  IF PRINTERS[i].type = "bambu"
           THEN /\ PRINTERS[i].name \notin bambu_connections => status.state = "OFFLINE"
                /\ (PRINTERS[i].name \in bambu_connections /\ resp.outcome = "error")
                     => status.state = "UNKNOWN"
                /\ (PRINTERS[i].name \in bambu_connections /\ resp.outcome = "ok"
                      /\ resp.state # None)
                     => status.raw_bambu_state = resp.state
           ELSE /\ resp.outcome \in {"connection_error", "timeout"} => status.state = "OFFLINE"
                /\ resp.outcome = "error" => status.state = "UNKNOWN"
                /\ (resp.outcome = "ok" /\ resp.state # None) => status.state = Val(resp.state)

\* C9: the polls of a pass never end it: in a running process they leave
\* every printer with a status, OFFLINE for a refused or timed-out request
\* and for a Bambu printer without a connection, UNKNOWN for any other
\* failure, and each printer's status comes from its own answer alone.
C9_PollNeverRaises ==
  [][\A t \in Tasks :
       (phase' = "running" /\ pc[t] = "poll" /\ pc'[t] # "poll")
       => (pc'[t] = "detect" /\ PolledRight(t)')]_vars

\* C9 witness: a pass in which the PrusaLink request was refused and the Bambu
\* printer answered that it is printing.
C9_Witness ==
  \E t \in Tasks :
    /\ pc[t] = "detect"
    /\ \E i \in PrinterIdx :
         /\ responses[t][i].outcome = "connection_error"
         /\ printer_statuses[t][i].status.state = "OFFLINE"
    /\ \E j \in PrinterIdx :
         /\ responses[t][j].outcome = "ok"
         /\ printer_statuses[t][j].status.state = "PRINTING"

\* C10: at most one update_status task exists at any time, so no two passes
\* are in flight together.
C10_OnePassInFlight ==
  \A t \in Tasks : \A u \in Tasks : (pc[t] # "none" /\ pc[u] # "none") => t = u

\* C10 witness: a pass waits for its notification to be sent, between the
\* read and the write of a printer's record.
C10_Witness ==
  \E t \in Tasks : pc[t] = "send" /\ previous_states[CurName(t)] # None


\* C11: on every way the process ends after the MQTT clients were started,
\* mqtt_stop() has been called on each entry of bambu_connections.
C11_ExitStopsConnections ==
  phase = "exited" => mqtt_stop_called = bambu_connections


\* The extensions in the order the specification lists them.
StatedExtensions == <<".gcode.3mf", ".bgcode", ".gcode", ".gco", ".3mf">>

\* C12: a file name without "_@" yields no user; otherwise the user is the
\* text after the last "_@" less one trailing extension, the first of the
\* stated order that the text ends with whatever its case, and the whole text
\* if it ends with none; the case of the result is that of the file name.
C12_ExtractUser ==
  Returned("parse_username_from_filename") =>
    LET file_name == Val(fn_in).arg
        user == Val(fn_out)
        at == LastIndexOf(file_name, "_@")
    IN  /\ at = 0 => user = None
        /\ at # 0 =>
             /\ user # None
             /\ LET after_at == SubSeq(file_name, at + 2, Len(file_name))
                    cut == SubSeq(after_at, Len(Val(user)) + 1, Len(after_at))
                    hits == {k \in 1..Len(StatedExtensions) :
                               EndsWith(Lower(after_at), StatedExtensions[k])}
                IN  /\ Len(Val(user)) <= Len(after_at)
                    /\ Val(user) \o cut = after_at
                    /\ hits = {} => cut = ""
                    /\ hits # {} =>
                         \E k \in hits : /\ \A n \in hits : k <= n
                                         /\ Lower(cut) = StatedExtensions[k]
        /\ file_name = "bracket_v3_@bob.smith.gcode" => user = Some("bob.smith")
        /\ file_name = "part.3mf" => user = None
        /\ file_name = "x_@alice.gcode.3mf" => user = Some("alice")

\* C12 witness: a name ending in ".gcode.3mf" loses the whole of it, and a
\* name whose extension is in another case keeps the case of its user.
C12_Witness ==
  /\ Returned("parse_username_from_filename")
  /\ \/ Val(fn_in).arg = "x_@alice.gcode.3mf" /\ fn_out = Some(Some("alice"))
     \/ Val(fn_in).arg = "x_@Al.GCode" /\ fn_out = Some(Some("Al"))


\* C13: a recorded start stays as it is through every turn in which the
\* printer's reading is PRINTING or UNKNOWN, and a running process changes or
\* removes it only in a step that sends the printer's notification.
C13_SessionKept ==
  [][/\ \A t \in Tasks :
          (DetectTurn(t) /\ CurStatus(t).state \in {"PRINTING", "UNKNOWN"}
             /\ print_start_times[CurName(t)] # None)
          => print_start_times'[CurName(t)] = print_start_times[CurName(t)]
     /\ \A n \in PrinterNames :
          (phase' = "running" /\ print_start_times[n] # None
             /\ print_start_times'[n] # print_start_times[n])
          => \E t \in Tasks : /\ pc'[t] = "send"
                              /\ outbox'[t] # None
                              /\ Val(outbox'[t]).printer_name = n]_vars


\* C14: a notification is being sent for a printer only if the printer's
\* stored record, the one the pass found, exists and has state PRINTING.
C14_EventOnlyAfterPrinting ==
  \A t \in Tasks :
    pc[t] = "send" =>
      /\ outbox[t] # None
      /\ Val(outbox[t]).printer_name = CurName(t)
      /\ CurPrev(t) # None
      /\ Val(CurPrev(t)).state = "PRINTING"

\* C14 witness: a pass sends the notification of its second printer, whose
\* record is PRINTING, after its first printer, read ERROR, went by.
C14_Witness ==
  \E t \in Tasks :
    /\ pc[t] = "send"
    /\ idx[t] = 2
    /\ Val(CurPrev(t)).state = "PRINTING"
    /\ printer_statuses[t][1].status.state = "ERROR"
    /\ previous_states[PRINTERS[1].name] # None
    /\ Val(previous_states[PRINTERS[1].name]).state = "ERROR"

\* C15: in a turn on a printer whose record is PRINTING, "Print Failed" is
\* sent exactly when the reading's state is ERROR or STOPPED and the reading
\* is not a completion, and a reading of PRINTING, PAUSED, ATTENTION or
\* OFFLINE sends nothing.
C15_FailedIff ==
  [][\A t \in Tasks :
       (DetectTurn(t) /\ WasPrinting(CurPrev(t)) /\ CurStatus(t).state # "UNKNOWN")
       => /\ Emits(t, "Print Failed")
               <=> (/\ CurStatus(t).state \in {"ERROR", "STOPPED"}
                    /\ CurStatus(t).state \notin {"IDLE", "READY", "FINISHED"}
                    /\ CurStatus(t).raw_bambu_state # Some("FINISH"))
          /\ CurStatus(t).state \in {"PRINTING", "PAUSED", "ATTENTION", "OFFLINE"}
               => pc'[t] # "send" /\ outbox'[t] = None]_vars

\* C15 witness: "Print Failed" is being sent for a printer read STOPPED.
C15_Witness ==
  \E t \in Tasks :
    /\ pc[t] = "send"
    /\ outbox[t] # None
    /\ Val(outbox[t]).kind = "Print Failed"
    /\ CurStatus(t).state = "STOPPED"


\* C16: the notification being sent names the file of the printer's stored
\* record and mentions the user of that record: the guild member of that
\* name whatever the case, else "@" and the name, else "Unknown user" when
\* the record has no user.
C16_EventCarriesPrevious ==
  \A t \in Tasks :
    (pc[t] = "send" /\ outbox[t] # None /\ CurPrev(t) # None) =>
      LET prev == Val(CurPrev(t))
          sent == Val(outbox[t])
      IN  /\ sent.prev_file = prev.file_name
          /\ prev.username = None => sent.mention = "Unknown user"
          /\ prev.username # None =>
               LET members == {m \in GuildMembers : Lower(m) = Lower(Val(prev.username))}
               IN  IF members # {} THEN sent.mention \in {"<@" \o m \o ">" : m \in members}
                   ELSE sent.mention = "@" \o Val(prev.username)

\* C16 witness: the notification names the file and the user the record
\* holds while the reading that triggers it has neither.
C16_Witness ==
  \E t \in Tasks :
    /\ pc[t] = "send"
    /\ outbox[t] # None
    /\ Val(outbox[t]).prev_file = Some("a_@bob.gcode")
    /\ Val(outbox[t]).mention = "@bob"
    /\ printer_statuses[t][idx[t]].file_name = None
    /\ printer_statuses[t][idx[t]].username = None


\* C17: when the notification loop of a pass is through, each printer whose
\* reading was not UNKNOWN has a stored record, and the record's state, file
\* name, user and time_printing are those of that reading.
C17_RecordIsReading ==
  \A t \in Tasks :
    pc[t] \in {"edit", "post"} =>
      \A i \in PrinterIdx :
        LET entry == printer_statuses[t][i]
            record == previous_states[PRINTERS[i].name]
        IN  entry.status.state # "UNKNOWN" =>
              /\ record # None
              /\ Val(record).state = entry.status.state
              /\ Val(record).file_name = entry.file_name
              /\ Val(record).username = entry.username
              /\ Val(record).time_printing = entry.status.time_printing
              /\ DOMAIN Val(record) = {"state", "file_name", "username", "time_printing"}

\* C17 witness: a pass later than the first is through its loop with a PAUSED
\* reading that carries a time_printing, and the stored record holds it.
C17_Witness ==
  \E t \in Tasks :
    /\ pc[t] = "edit"
    /\ printer_statuses[t][1].status.state = "PAUSED"
    /\ printer_statuses[t][1].status.time_printing = Some(5400)
    /\ previous_states[PRINTERS[1].name] # None
    /\ Val(previous_states[PRINTERS[1].name]).time_printing = Some(5400)


\* C18: a turn on a PRINTING reading whose stored record is absent or not
\* PRINTING leaves the printer's start at the current instant; a turn on a
\* PRINTING reading whose stored record is PRINTING does not set the start to
\* the current instant.
C18_StartOnEntering ==
  [][\A t \in Tasks :
       (DetectTurn(t) /\ CurStatus(t).state = "PRINTING")
       => LET n == CurName(t)
          IN  /\ (CurPrev(t) = None \/ Val(CurPrev(t)).state # "PRINTING")
                   => print_start_times'[n] = Some(now)
              /\ (CurPrev(t) # None /\ Val(CurPrev(t)).state = "PRINTING"
                    /\ print_start_times[n] # Some(now))
                   => print_start_times'[n] # Some(now)]_vars

\* C18 witness: past the first instant, a pass has gone by its first printer,
\* read PRINTING on a PRINTING record without a start being set, and has just
\* recorded the current instant for its second printer, newly PRINTING.
C18_Witness ==
  \E t \in Tasks :
    /\ pc[t] = "detect"
    /\ idx[t] = NumPrinters + 1
    /\ now > 0
    /\ printer_statuses[t][1].status.state = "PRINTING"
    /\ print_start_times[PRINTERS[1].name] = None
    /\ printer_statuses[t][2].status.state = "PRINTING"
    /\ print_start_times[PRINTERS[2].name] = Some(now)


\* The states of the specification's enum, as the code spells them.
CanonicalStates ==
  {"IDLE", "PRINTING", "PAUSED", "FINISHED", "STOPPED", "ERROR", "ATTENTION",
   "OFFLINE", "UNKNOWN"}

\* C19: whatever gcode state a connected Bambu printer reports, the reading's
\* state is one of the canonical states and its raw_bambu_state is the
\* reported token; FINISH reads as IDLE with raw_bambu_state "FINISH".
C19_BambuStateNormalized ==
  \A t \in Tasks : \A i \in PrinterIdx :
    (/\ pc[t] \in Polled
     /\ PRINTERS[i].type = "bambu"
     /\ PRINTERS[i].name \in bambu_connections
     /\ responses[t][i].outcome = "ok"
     /\ responses[t][i].state # None)
    => LET token == Val(responses[t][i].state)
           status == printer_statuses[t][i].status
       IN  /\ status.state \in CanonicalStates
           /\ status.raw_bambu_state = Some(token)
           /\ token = "FINISH" => status.state = "IDLE"

\* C19 witness: a connected Bambu printer reported FINISH and reads as IDLE
\* with the token kept.
C19_Witness ==
  \E t \in Tasks : \E i \in PrinterIdx :
    /\ pc[t] \in Polled
    /\ PRINTERS[i].type = "bambu"
    /\ responses[t][i].outcome = "ok"
    /\ responses[t][i].state = Some("FINISH")
    /\ printer_statuses[t][i].status.state = "IDLE"
    /\ printer_statuses[t][i].status.raw_bambu_state = Some("FINISH")

\* C20: format_time of an integer s is "0m" when s <= 0, the whole minutes of
\* s followed by "m" when 0 < s < 3600, and the whole hours of s, "h ", the
\* whole minutes of the rest and "m" when s >= 3600; nothing is rounded up.
C20_FormatTime ==
  (Returned("format_time") /\ Val(fn_in).arg # None) =>
    LET s == Val(Val(fn_in).arg)
        label == Val(fn_out)
    IN  /\ s <= 0 => label = "0m"
        /\ (0 < s /\ s < 3600) => label = ToString(s \div 60) \o "m"
        /\ s >= 3600
             => label = ToString(s \div 3600) \o "h " \o ToString((s % 3600) \div 60) \o "m"
        /\ label # ""

\* C20 witness: one second short of two hours reads "1h 59m".
C20_Witness ==
  /\ Returned("format_time")
  /\ Val(fn_in).arg = Some(7199)
  /\ fn_out = Some("1h 59m")


\* What a notification says of its event: the kind, the printer, the file and
\* the user.
EventOf(sent) ==
  [kind |-> sent.kind, printer_name |-> sent.printer_name,
   prev_file |-> sent.prev_file, mention |-> sent.mention]

\* The events of a run, in the order they were sent.
EventsOf(run) == [k \in DOMAIN run.sent |-> EventOf(run.sent[k])]

\* C21: a run fed a sequence of readings and a run fed the same sequence with
\* the UNKNOWN readings deleted have sent the same events and hold the same
\* record for every printer.
C21_UnknownTransparent ==
  /\ EventsOf(replay[1]) = EventsOf(replay[2])
  /\ replay[1].previous_states = replay[2].previous_states


\* C22: a notification is sent for a printer only if none has been sent for
\* it, in this pass or an earlier one, since its record was last written: a
\* PRINTING reading cannot have been stored for it without that.
C22_NoDuplicate ==
  [][\A t \in Tasks :
       (DetectTurn(t) /\ pc'[t] = "send") => CurName(t) \notin notified]_vars

====
